---- MODULE Spec2Model ----
(***************************************************************************)
(* Order tracker: InMemoryStorage (an insertion-ordered dict of orders),   *)
(* OrderTracker (validation and status vocabulary) and the Flask handlers  *)
(* (create_order, get_order, update_order, list_orders, delete_order).     *)
(***************************************************************************)
EXTENDS Integers, Sequences, FiniteSets, TLC

(***************************************************************************)
(* Bounds of the model.                                                    *)
(***************************************************************************)
\* longest items list a caller submits; the n-th item has quantity n
MaxItems == 2

(***************************************************************************)
(* Python values, tagged with their type.                                  *)
(***************************************************************************)
None == [type |-> "NoneType"]

PyStr(s) == [type |-> "str", s |-> s]

PyInt(n) == [type |-> "int", n |-> n]

\* a float, held as a count of halves (PyFloat(3) is 1.5)
PyFloat(h) == [type |-> "float", h |-> h]

PyList(l) == [type |-> "list", l |-> l]

PyDict(d) == [type |-> "dict", d |-> d]

\* an argument the operation does not take
Absent == [type |-> "absent"]

\* bool(v)
Truthy(v) ==
    CASE v.type = "NoneType" -> FALSE
      [] v.type = "str" -> v.s # ""
      [] v.type = "int" -> v.n # 0
      [] v.type = "float" -> v.h # 0
      [] v.type = "list" -> Len(v.l) > 0
      [] v.type = "dict" -> DOMAIN v.d # {}
      [] OTHER -> FALSE

\* isinstance(v, t)
IsInstance(v, t) == v.type = t

(***************************************************************************)
(* order_tracker.py                                                        *)
(***************************************************************************)

\* the vocabulary with a fifth status
VALID_STATUSES_more == {"pending", "shipped", "delivered", "cancelled", "invalid_status"}

VALID_STATUSES == {"pending", "shipped", "delivered", "cancelled"}

\* `v in VALID_STATUSES` for a hashable v
InValidStatuses(v) == v.type = "str" /\ v.s \in VALID_STATUSES

(***************************************************************************)
(* in_memory_storage.py: self._orders is a dict; a dict keeps its keys in  *)
(* insertion order, so it is a sequence of (key, value) entries.           *)
(***************************************************************************)
Keys(s) == {s[i].k : i \in 1..Len(s)}

\* position of key k in dict s (there is exactly one when k is a key)
IndexOf(s, k) == CHOOSE i \in 1..Len(s) : s[i].k = k

RemoveAt(s, i) == [j \in 1..(Len(s) - 1) |-> IF j < i THEN s[j] ELSE s[j + 1]]

exists(s, order_id) == \E i \in 1..Len(s) : s[i].k = order_id


\* save that writes an existing key's value into the first entry
save_first(s, order_id, order_data) ==
    IF exists(s, order_id)
    THEN [s EXCEPT ![1].v = order_data]
    ELSE Append(s, [k |-> order_id, v |-> order_data])

\* self._orders[order_id] = order_data
save(s, order_id, order_data) ==
    IF exists(s, order_id)
    THEN [s EXCEPT ![IndexOf(s, order_id)].v = order_data]
    ELSE Append(s, [k |-> order_id, v |-> order_data])

\* self._orders.get(order_id)
get(s, order_id) ==
    IF exists(s, order_id) THEN s[IndexOf(s, order_id)].v ELSE None


\* get_all that misses the last entry
get_all_short(s) == [i \in 1..(Len(s) - 1) |-> s[i].v]

\* list(self._orders.values())
get_all(s) == [i \in 1..Len(s) |-> s[i].v]


\* delete that looks the order up and leaves it in the dict
delete_kept(s, order_id) == s

\* self._orders.pop(order_id, None): the store that is left
delete(s, order_id) ==
    IF exists(s, order_id) THEN RemoveAt(s, IndexOf(s, order_id)) ELSE s

(***************************************************************************)
(* order_tracker.py: each method is a function of the store and of its     *)
(* arguments, giving the store it leaves, the exception it raises ("" for  *)
(* none, with its message) and the orders it returns.                      *)
(***************************************************************************)
Raise(s, exc, msg) == [orders |-> s, exc |-> exc, msg |-> msg, ret |-> <<>>]

Return(s, ret) == [orders |-> s, exc |-> "", msg |-> "", ret |-> ret]

\* the body of `for item in items`: the message of the check item fails, or ""
ItemError(item) ==
    IF ~IsInstance(item, "dict")
    THEN "Each item must be a dictionary."
    ELSE IF "name" \notin DOMAIN item.d \/ "quantity" \notin DOMAIN item.d
    THEN "Each item must have 'name' and 'quantity' fields."
    ELSE IF ~IsInstance(item.d.quantity, "int") \/ item.d.quantity.n <= 0
    THEN "Item quantity must be a positive integer."
    ELSE ""

\* the loop from item i on: the message of the first item that fails, or ""
RECURSIVE ItemsError(_, _)
ItemsError(l, i) ==
    IF i > Len(l) THEN ""
    ELSE IF ItemError(l[i]) # "" THEN ItemError(l[i])
    ELSE ItemsError(l, i + 1)


\* add_order that builds the order and returns it without saving it
add_order_unsaved(s, order_id, items, customer_id) ==
    IF ~Truthy(order_id) \/ ~IsInstance(order_id, "str")
    THEN Raise(s, "ValueError", "Order ID is required and must be a non-empty string.")
    ELSE IF ~Truthy(customer_id) \/ ~IsInstance(customer_id, "str")
    THEN Raise(s, "ValueError", "Customer ID is required and must be a non-empty string.")
    ELSE IF ~Truthy(items) \/ ~IsInstance(items, "list")
    THEN Raise(s, "ValueError", "Items must be a non-empty list.")
    ELSE IF ItemsError(items.l, 1) # ""
    THEN Raise(s, "ValueError", ItemsError(items.l, 1))
    ELSE IF exists(s, order_id)
    THEN Raise(s, "ValueError", "Order with ID '" \o order_id.s \o "' already exists.")
    ELSE Return(s, <<[order_id |-> order_id, items |-> items,
                      customer_id |-> customer_id, status |-> PyStr("pending")]>>)

\* add_order without the storage.exists check: a duplicate overwrites
add_order_overwrite(s, order_id, items, customer_id) ==
    IF ~Truthy(order_id) \/ ~IsInstance(order_id, "str")
    THEN Raise(s, "ValueError", "Order ID is required and must be a non-empty string.")
    ELSE IF ~Truthy(customer_id) \/ ~IsInstance(customer_id, "str")
    THEN Raise(s, "ValueError", "Customer ID is required and must be a non-empty string.")
    ELSE IF ~Truthy(items) \/ ~IsInstance(items, "list")
    THEN Raise(s, "ValueError", "Items must be a non-empty list.")
    ELSE IF ItemsError(items.l, 1) # ""
    THEN Raise(s, "ValueError", ItemsError(items.l, 1))
    ELSE LET order == [order_id |-> order_id, items |-> items,
                       customer_id |-> customer_id, status |-> PyStr("pending")]
         IN Return(save(s, order_id, order), <<order>>)


\* add_order that looks for a duplicate before it validates the arguments
add_order_duplicate_first(s, order_id, items, customer_id) ==
    IF exists(s, order_id)
    THEN Raise(s, "ValueError", "Order with ID '" \o order_id.s \o "' already exists.")
    ELSE IF ~Truthy(order_id) \/ ~IsInstance(order_id, "str")
    THEN Raise(s, "ValueError", "Order ID is required and must be a non-empty string.")
    ELSE IF ~Truthy(customer_id) \/ ~IsInstance(customer_id, "str")
    THEN Raise(s, "ValueError", "Customer ID is required and must be a non-empty string.")
    ELSE IF ~Truthy(items) \/ ~IsInstance(items, "list")
    THEN Raise(s, "ValueError", "Items must be a non-empty list.")
    ELSE IF ItemsError(items.l, 1) # ""
    THEN Raise(s, "ValueError", ItemsError(items.l, 1))
    ELSE LET order == [order_id |-> order_id, items |-> items,
                       customer_id |-> customer_id, status |-> PyStr("pending")]
         IN Return(save(s, order_id, order), <<order>>)

add_order(s, order_id, items, customer_id) ==
    IF ~Truthy(order_id) \/ ~IsInstance(order_id, "str")
    THEN Raise(s, "ValueError", "Order ID is required and must be a non-empty string.")
    ELSE IF ~Truthy(customer_id) \/ ~IsInstance(customer_id, "str")
    THEN Raise(s, "ValueError", "Customer ID is required and must be a non-empty string.")
    ELSE IF ~Truthy(items) \/ ~IsInstance(items, "list")
    THEN Raise(s, "ValueError", "Items must be a non-empty list.")
    ELSE IF ItemsError(items.l, 1) # ""
    THEN Raise(s, "ValueError", ItemsError(items.l, 1))
    ELSE IF exists(s, order_id)
    THEN Raise(s, "ValueError", "Order with ID '" \o order_id.s \o "' already exists.")
    ELSE LET order == [order_id |-> order_id, items |-> items,
                       customer_id |-> customer_id, status |-> PyStr("pending")]
         IN Return(save(s, order_id, order), <<order>>)

get_order_by_id(s, order_id) ==
    IF ~Truthy(order_id) \/ ~IsInstance(order_id, "str")
    THEN Raise(s, "ValueError", "Order ID must be a non-empty string.")
    ELSE LET order == get(s, order_id)
         IN IF order = None
            THEN Raise(s, "KeyError", "Order with ID '" \o order_id.s \o "' not found.")
            ELSE Return(s, <<order>>)

\* the message of an invalid status names the status when it is a string
InvalidStatusMsg(status) ==
    "Invalid status '" \o (IF status.type = "str" THEN status.s ELSE "None")
        \o "'. Must be one of: cancelled, delivered, pending, shipped."


\* update_order_status without the check of new_status
update_order_status_unchecked(s, order_id, new_status) ==
    IF ~Truthy(order_id) \/ ~IsInstance(order_id, "str")
    THEN Raise(s, "ValueError", "Order ID must be a non-empty string.")
    ELSE LET order == get(s, order_id)
         IN IF order = None
            THEN Raise(s, "KeyError", "Order with ID '" \o order_id.s \o "' not found.")
            ELSE LET updated == [order EXCEPT !.status = new_status]
                 IN Return(save(s, order_id, updated), <<updated>>)

\* update_order_status that saves a record for an order_id it does not find
update_order_status_upsert(s, order_id, new_status) ==
    IF ~Truthy(order_id) \/ ~IsInstance(order_id, "str")
    THEN Raise(s, "ValueError", "Order ID must be a non-empty string.")
    ELSE IF ~InValidStatuses(new_status)
    THEN Raise(s, "ValueError", InvalidStatusMsg(new_status))
    ELSE LET order == get(s, order_id)
             updated == IF order = None
                        THEN [order_id |-> order_id, items |-> None,
                              customer_id |-> None, status |-> new_status]
                        ELSE [order EXCEPT !.status = new_status]
         IN Return(save(s, order_id, updated), <<updated>>)


\* update_order_status with a transition graph: delivered and cancelled are final
update_order_status_final(s, order_id, new_status) ==
    IF ~Truthy(order_id) \/ ~IsInstance(order_id, "str")
    THEN Raise(s, "ValueError", "Order ID must be a non-empty string.")
    ELSE IF ~InValidStatuses(new_status)
    THEN Raise(s, "ValueError", InvalidStatusMsg(new_status))
    ELSE LET order == get(s, order_id)
         IN IF order = None
            THEN Raise(s, "KeyError", "Order with ID '" \o order_id.s \o "' not found.")
            ELSE IF order.status.s \in {"delivered", "cancelled"}
            THEN Raise(s, "ValueError", InvalidStatusMsg(new_status))
            ELSE LET updated == [order EXCEPT !.status = new_status]
                 IN Return(save(s, order_id, updated), <<updated>>)


\* update_order_status that looks the order up before it checks new_status
update_order_status_lookup_first(s, order_id, new_status) ==
    IF ~Truthy(order_id) \/ ~IsInstance(order_id, "str")
    THEN Raise(s, "ValueError", "Order ID must be a non-empty string.")
    ELSE LET order == get(s, order_id)
         IN IF order = None
            THEN Raise(s, "KeyError", "Order with ID '" \o order_id.s \o "' not found.")
            ELSE IF ~InValidStatuses(new_status)
            THEN Raise(s, "ValueError", InvalidStatusMsg(new_status))
            ELSE LET updated == [order EXCEPT !.status = new_status]
                 IN Return(save(s, order_id, updated), <<updated>>)

\* update_order_status that writes the status before it checks it
update_order_status_write_first(s, order_id, new_status) ==
    IF ~Truthy(order_id) \/ ~IsInstance(order_id, "str")
    THEN Raise(s, "ValueError", "Order ID must be a non-empty string.")
    ELSE LET order == get(s, order_id)
         IN IF order = None
            THEN Raise(s, "KeyError", "Order with ID '" \o order_id.s \o "' not found.")
            ELSE LET updated == [order EXCEPT !.status = new_status]
                 IN IF ~InValidStatuses(new_status)
                    THEN Raise(save(s, order_id, updated), "ValueError",
                               InvalidStatusMsg(new_status))
                    ELSE Return(save(s, order_id, updated), <<updated>>)

update_order_status(s, order_id, new_status) ==
    IF ~Truthy(order_id) \/ ~IsInstance(order_id, "str")
    THEN Raise(s, "ValueError", "Order ID must be a non-empty string.")
    ELSE IF ~InValidStatuses(new_status)
    THEN Raise(s, "ValueError", InvalidStatusMsg(new_status))
    ELSE LET order == get(s, order_id)
         IN IF order = None
            THEN Raise(s, "KeyError", "Order with ID '" \o order_id.s \o "' not found.")
            ELSE LET updated == [order EXCEPT !.status = new_status]
                 IN Return(save(s, order_id, updated), <<updated>>)

list_all_orders(s) == Return(s, get_all(s))


\* list_orders_by_status without the filter
list_orders_by_status_unfiltered(s, status) ==
    IF ~InValidStatuses(status)
    THEN Raise(s, "ValueError", InvalidStatusMsg(status))
    ELSE Return(s, get_all(s))

list_orders_by_status(s, status) ==
    IF ~InValidStatuses(status)
    THEN Raise(s, "ValueError", InvalidStatusMsg(status))
    ELSE Return(s, SelectSeq(get_all(s), LAMBDA order : order.status = status))

(***************************************************************************)
(* app.py: the handlers, as a function of the store and of the request    *)
(* (the URL's order_id, the JSON body), giving the store they leave, the   *)
(* HTTP status and the order of the JSON answer.                           *)
(***************************************************************************)
Response(s, code, ret) == [orders |-> s, code |-> code, ret |-> ret]

\* data.get(key) on the JSON object of the body
DictGet(data, key) == IF key \in DOMAIN data.d THEN data.d[key] ELSE None

create_order(s, data) ==
    IF ~Truthy(data)
    THEN Response(s, 400, <<>>)
    ELSE LET order_id == DictGet(data, "order_id")
             items == DictGet(data, "items")
             customer_id == DictGet(data, "customer_id")
             r == add_order(s, order_id, items, customer_id)
         IN IF r.exc = "ValueError"
            THEN Response(r.orders, 400, <<>>)
            ELSE Response(r.orders, 201, r.ret)

get_order(s, order_id) ==
    LET r == get_order_by_id(s, order_id)
    IN IF r.exc \in {"ValueError", "KeyError"}
       THEN Response(r.orders, 404, <<>>)
       ELSE Response(r.orders, 200, r.ret)

\* data is the JSON object of the body
update_order(s, order_id, data) ==
    IF ~Truthy(data)
    THEN Response(s, 400, <<>>)
    ELSE LET new_status == DictGet(data, "status")
         IN IF ~Truthy(new_status)
            THEN Response(s, 400, <<>>)
            ELSE LET r == update_order_status(s, order_id, new_status)
                 IN IF r.exc = "ValueError" THEN Response(r.orders, 400, <<>>)
                    ELSE IF r.exc = "KeyError" THEN Response(r.orders, 404, <<>>)
                    ELSE Response(r.orders, 200, r.ret)

\* status and customer_id are request.args.get(...): a string, or None when
\* the query has no such parameter
list_orders(s, status, customer_id) ==
    LET r == IF Truthy(status) THEN list_orders_by_status(s, status)
             ELSE list_all_orders(s)
    IN IF r.exc = "ValueError"
       THEN Response(r.orders, 400, <<>>)
       ELSE Response(r.orders, 200,
                     IF Truthy(customer_id)
                     THEN SelectSeq(r.ret, LAMBDA o : o.customer_id = customer_id)
                     ELSE r.ret)

delete_order(s, order_id) ==
    LET r == get_order_by_id(s, order_id)
    IN IF r.exc \in {"ValueError", "KeyError"}
       THEN Response(r.orders, 404, <<>>)
       ELSE Response(delete(r.orders, order_id), 200, r.ret)

(***************************************************************************)
(* What callers submit.                                                    *)
(***************************************************************************)
OrderIds == {"ORD001", "ORD002"}

CustomerIds == {"CUST001", "CUST002"}

Item(name, quantity) == PyDict([name |-> PyStr(name), quantity |-> quantity])

\* well-formed items lists: n items, the i-th of quantity i
ValidItems == {PyList([i \in 1..n |-> Item("Widget", PyInt(i))]) : n \in 1..MaxItems}

\* items arguments add_order rejects, one or more for each of its checks
InvalidItems ==
    { None, PyList(<<>>), PyStr("Widget"),
      PyList(<<PyStr("Widget")>>),
      PyList(<<PyDict([name |-> PyStr("Widget")])>>),
      PyList(<<PyDict([quantity |-> PyInt(1)])>>),
      PyList(<<Item("Widget", PyInt(0))>>),
      PyList(<<Item("Widget", PyFloat(3))>>),
      PyList(<<Item("Widget", PyInt(1)), Item("Gadget", PyInt(-1))>>) }

ValidOrderIds == {PyStr(i) : i \in OrderIds}

\* order_id arguments the tracker rejects: empty, missing, not a string
InvalidOrderIds == {PyStr(""), None, PyInt(7)}

ValidCustomerIds == {PyStr(c) : c \in CustomerIds}

InvalidCustomerIds == {PyStr(""), None}

\* (order_id, items, customer_id) of an add_order call: every well-formed call,
\* every call with one malformed argument, and calls with several
AddArgs ==
    (ValidOrderIds \X ValidItems \X ValidCustomerIds)
    \cup (InvalidOrderIds \X ValidItems \X {PyStr("CUST001")})
    \cup ({PyStr("ORD001")} \X ValidItems \X InvalidCustomerIds)
    \cup ({PyStr("ORD001")} \X InvalidItems \X {PyStr("CUST002")})
    \cup ({PyStr(""), PyStr("ORD002")} \X {None} \X {None})

ValidStatusArgs == {PyStr(st) : st \in VALID_STATUSES}

\* status arguments outside the vocabulary
InvalidStatusArgs == {PyStr("invalid_status"), None}

StatusArgs == ValidStatusArgs \cup InvalidStatusArgs

\* (order_id, new_status) of an update_order_status call
UpdateArgs ==
    (ValidOrderIds \X StatusArgs)
    \cup (InvalidOrderIds \X {PyStr("shipped"), PyStr("invalid_status")})

OrderIdArgs == ValidOrderIds \cup InvalidOrderIds

\* the order_id of a URL /api/orders/<order_id>: a non-empty string
PathIds == ValidOrderIds

\* JSON objects posted to /api/orders: empty, with the three fields, with a
\* status beside them, with the order_id alone
CreateBodies ==
    { PyDict(<<>>),
      PyDict([order_id |-> PyStr("ORD001"),
              items |-> PyList(<<Item("Widget", PyInt(1))>>),
              customer_id |-> PyStr("CUST001")]),
      PyDict([order_id |-> PyStr("ORD002"),
              items |-> PyList(<<Item("Widget", PyInt(1))>>),
              customer_id |-> PyStr("CUST002"),
              status |-> PyStr("shipped")]),
      PyDict([order_id |-> PyStr("ORD001")]) }

\* (order_id, body) of PUT /api/orders/<order_id>: a status of the vocabulary,
\* another status, an empty status, no status
UpdateRequests ==
    (PathIds \X {PyDict([status |-> PyStr("shipped")]),
                 PyDict([status |-> PyStr("flying")]),
                 PyDict(<<>>)})
    \cup {<<PyStr("ORD001"), PyDict([status |-> PyStr("")])>>}

\* (status, customer_id) of the query of GET /api/orders
ListQueries ==
    { <<None, None>>, <<PyStr("shipped"), None>>, <<PyStr("flying"), None>>,
      <<PyStr(""), None>>, <<None, PyStr("CUST001")>>,
      <<PyStr("shipped"), PyStr("CUST001")>>, <<None, PyStr("")>> }

(***************************************************************************)
(* State.                                                                  *)
(***************************************************************************)
VARIABLES
    orders,   \* tracker.storage._orders
    pre,      \* _orders as it was when the last call started
    last,     \* the last call: operation, arguments, outcome
    lifecycle, \* per order id: "never" created, "stored", or "deleted" since
    conc      \* two callers whose storage calls interleave (SpecConc only)

vars == <<orders, pre, last, lifecycle, conc>>

\* no interleaved callers: one call at a time
NoCallers == [calls |-> <<>>, overlapped |-> FALSE, heap |-> <<>>, refs |-> <<>>]

Call(op, order_id, items, customer_id, status, exc, msg, ret, code) ==
    [op |-> op, order_id |-> order_id, items |-> items, customer_id |-> customer_id,
     status |-> status, exc |-> exc, msg |-> msg, ret |-> ret, code |-> code]

Init ==
    /\ orders = <<>>
    /\ pre = <<>>
    /\ last = Call("init", Absent, Absent, Absent, Absent, "", "", <<>>, 0)
    /\ lifecycle = [i \in OrderIds |-> "never"]
    /\ conc = NoCallers

AddOrder ==
    \E args \in AddArgs :
        LET order_id == args[1]
            items == args[2]
            customer_id == args[3]
        IN \E r \in {add_order(orders, order_id, items, customer_id)} :
           /\ orders' = r.orders
           /\ pre' = orders
           /\ UNCHANGED conc
           /\ last' = Call("add_order", order_id, items, customer_id, Absent,
                           r.exc, r.msg, r.ret, 0)
           /\ lifecycle' = IF r.exc = ""
                         THEN [lifecycle EXCEPT ![order_id.s] = "stored"]
                         ELSE lifecycle

GetOrderById ==
    \E order_id \in OrderIdArgs :
        \E r \in {get_order_by_id(orders, order_id)} :
           /\ orders' = r.orders
           /\ pre' = orders
           /\ UNCHANGED conc
           /\ last' = Call("get_order_by_id", order_id, Absent, Absent, Absent,
                           r.exc, r.msg, r.ret, 0)
           /\ UNCHANGED lifecycle

UpdateOrderStatus ==
    \E args \in UpdateArgs :
        LET order_id == args[1]
            new_status == args[2]
        IN \E r \in {update_order_status(orders, order_id, new_status)} :
           /\ orders' = r.orders
           /\ pre' = orders
           /\ UNCHANGED conc
           /\ last' = Call("update_order_status", order_id, Absent, Absent, new_status,
                           r.exc, r.msg, r.ret, 0)
           /\ UNCHANGED lifecycle

ListAllOrders ==
    \E r \in {list_all_orders(orders)} :
       /\ orders' = r.orders
       /\ pre' = orders
       /\ UNCHANGED conc
       /\ last' = Call("list_all_orders", Absent, Absent, Absent, Absent,
                       r.exc, r.msg, r.ret, 0)
       /\ UNCHANGED lifecycle

ListOrdersByStatus ==
    \E status \in StatusArgs :
        \E r \in {list_orders_by_status(orders, status)} :
           /\ orders' = r.orders
           /\ pre' = orders
           /\ UNCHANGED conc
           /\ last' = Call("list_orders_by_status", Absent, Absent, Absent, status,
                           r.exc, r.msg, r.ret, 0)
           /\ UNCHANGED lifecycle

CreateOrder ==
    \E data \in CreateBodies :
        \E r \in {create_order(orders, data)} :
           /\ orders' = r.orders
           /\ pre' = orders
           /\ UNCHANGED conc
           /\ last' = Call("create_order", DictGet(data, "order_id"), DictGet(data, "items"),
                           DictGet(data, "customer_id"), DictGet(data, "status"),
                           "", "", r.ret, r.code)
           /\ lifecycle' = IF r.code = 201
                            THEN [lifecycle EXCEPT ![DictGet(data, "order_id").s] = "stored"]
                            ELSE lifecycle

GetOrder ==
    \E order_id \in PathIds :
        \E r \in {get_order(orders, order_id)} :
           /\ orders' = r.orders
           /\ pre' = orders
           /\ UNCHANGED conc
           /\ last' = Call("get_order", order_id, Absent, Absent, Absent,
                           "", "", r.ret, r.code)
           /\ UNCHANGED lifecycle

UpdateOrder ==
    \E req \in UpdateRequests :
        \E r \in {update_order(orders, req[1], req[2])} :
           /\ orders' = r.orders
           /\ pre' = orders
           /\ UNCHANGED conc
           /\ last' = Call("update_order", req[1], Absent, Absent,
                           DictGet(req[2], "status"), "", "", r.ret, r.code)
           /\ UNCHANGED lifecycle

ListOrders ==
    \E q \in ListQueries :
        \E r \in {list_orders(orders, q[1], q[2])} :
           /\ orders' = r.orders
           /\ pre' = orders
           /\ UNCHANGED conc
           /\ last' = Call("list_orders", Absent, Absent, q[2], q[1],
                           "", "", r.ret, r.code)
           /\ UNCHANGED lifecycle

DeleteOrder ==
    \E order_id \in PathIds :
        \E r \in {delete_order(orders, order_id)} :
           /\ orders' = r.orders
           /\ pre' = orders
           /\ UNCHANGED conc
           /\ last' = Call("delete_order", order_id, Absent, Absent, Absent,
                           "", "", r.ret, r.code)
           /\ lifecycle' = IF r.code = 200
                         THEN [lifecycle EXCEPT ![order_id.s] = "deleted"]
                         ELSE lifecycle

Next ==
    \/ AddOrder
    \/ GetOrderById
    \/ UpdateOrderStatus
    \/ ListAllOrders
    \/ ListOrdersByStatus
    \/ CreateOrder
    \/ GetOrder
    \/ UpdateOrder
    \/ ListOrders
    \/ DeleteOrder

Spec == Init /\ [][Next]_vars

(***************************************************************************)
(* Two callers at once (the development server of app.py line 140 serves   *)
(* each request on a thread of its own). A caller runs one handler on      *)
(* valid arguments; each of its steps is one storage call, with the        *)
(* statements that lead to it and, for the last call, the answer.          *)
(* create_order: exists, save. update_order: get, save. delete_order: get, *)
(* delete. A stored order is a dict object: storage.get hands out a        *)
(* reference to it, so conc.heap holds the objects, conc.refs the object   *)
(* stored under each key, and a caller's order is a reference into the     *)
(* heap. orders stays the store by value: orders[i].v = heap[refs[k]].     *)
(***************************************************************************)
Caller(op, order_id, items, customer_id, status, pc) ==
    [op |-> op, order_id |-> order_id, items |-> items, customer_id |-> customer_id,
     status |-> status, pc |-> pc, order |-> 0, code |-> 0, ret |-> <<>>]

\* the requests a caller makes
ConcCalls ==
    {Caller("create_order", i, PyList(<<Item("Widget", PyInt(1))>>), c, Absent, "exists") :
        i \in ValidOrderIds, c \in ValidCustomerIds}
    \cup {Caller("update_order", i, Absent, Absent, st, "get") :
             i \in ValidOrderIds, st \in {PyStr("shipped"), PyStr("cancelled")}}
    \cup {Caller("delete_order", i, Absent, Absent, Absent, "get") : i \in ValidOrderIds}

\* the stores the callers start from: empty, or ORD001 as add_order stored it
ConcStores ==
    { <<>>,
      add_order(<<>>, PyStr("ORD001"), PyList(<<Item("Widget", PyInt(1))>>),
                PyStr("CUST001")).orders }

\* the storage and its objects: the dict by value, the objects, the object of each key
Memory(s, heap, refs) == [orders |-> s, heap |-> heap, refs |-> refs]

Finished(c, code, ret) == [c EXCEPT !.pc = "done", !.code = code, !.ret = ret]

\* add_order lines 62-63: if self.storage.exists(order_id): raise ValueError,
\* which create_order answers with 400
AddExistsStep(m, c) ==
    IF exists(m.orders, c.order_id)
    THEN [m |-> m, c |-> Finished(c, 400, <<>>)]
    ELSE [m |-> m, c |-> [c EXCEPT !.pc = "save"]]

\* add_order lines 65-72: build the order, self.storage.save, return order,
\* which create_order answers with 201
AddSaveStep(m, c) ==
    LET order == [order_id |-> c.order_id, items |-> c.items,
                  customer_id |-> c.customer_id, status |-> PyStr("pending")]
        oid == Len(m.heap) + 1
    IN [m |-> Memory(save(m.orders, c.order_id, order), Append(m.heap, order),
                     [k \in DOMAIN m.refs \cup {c.order_id} |->
                         IF k = c.order_id THEN oid ELSE m.refs[k]]),
        c |-> Finished(c, 201, <<order>>)]

\* update_order_status lines 119-121 and get_order_by_id lines 91-93 (called by
\* delete_order): order = self.storage.get(order_id); raise KeyError if None,
\* which the handlers answer with 404
GetStep(m, c) ==
    IF get(m.orders, c.order_id) = None
    THEN [m |-> m, c |-> Finished(c, 404, <<>>)]
    ELSE [m |-> m,
          c |-> [c EXCEPT !.order = m.refs[c.order_id],
                          !.pc = IF c.op = "delete_order" THEN "delete" ELSE "save"]]

\* update_order_status lines 123-125: order["status"] = new_status on the
\* object, self.storage.save(order_id, order), return order; answered with 200
UpdateSaveStep(m, c) ==
    LET updated == [m.heap[c.order] EXCEPT !.status = c.status]
    IN [m |-> Memory(save(m.orders, c.order_id, updated),
                     [m.heap EXCEPT ![c.order] = updated],
                     [k \in DOMAIN m.refs \cup {c.order_id} |->
                         IF k = c.order_id THEN c.order ELSE m.refs[k]]),
        c |-> Finished(c, 200, <<updated>>)]

\* delete_order lines 132-133: tracker.storage.delete(order_id), answer 200
\* with the object that get_order_by_id returned, as it is now
DeleteStep(m, c) ==
    [m |-> Memory(delete(m.orders, c.order_id), m.heap,
                  [k \in DOMAIN m.refs \ {c.order_id} |-> m.refs[k]]),
     c |-> Finished(c, 200, <<m.heap[c.order]>>)]

InitConc ==
    /\ orders \in ConcStores
    /\ pre = orders
    /\ last = Call("init", Absent, Absent, Absent, Absent, "", "", <<>>, 0)
    /\ lifecycle = [i \in OrderIds |-> IF PyStr(i) \in Keys(orders) THEN "stored" ELSE "never"]
    /\ conc \in {[calls |-> <<c1, c2>>, overlapped |-> FALSE,
                  heap |-> get_all(orders),
                  refs |-> [k \in Keys(orders) |-> IndexOf(orders, k)]] :
                    c1, c2 \in ConcCalls}

\* caller p takes the step r; the callers overlap when the other caller is
\* between its two storage calls
Take(p, r) ==
    /\ orders' = r.m.orders
    /\ conc' = [calls |-> [conc.calls EXCEPT ![p] = r.c],
                overlapped |-> conc.overlapped \/ conc.calls[3 - p].pc \in {"save", "delete"},
                heap |-> r.m.heap,
                refs |-> r.m.refs]
    /\ UNCHANGED <<pre, last, lifecycle>>

AddExists ==
    \E p \in DOMAIN conc.calls :
        /\ conc.calls[p].op = "create_order" /\ conc.calls[p].pc = "exists"
        /\ Take(p, AddExistsStep(Memory(orders, conc.heap, conc.refs), conc.calls[p]))

AddSave ==
    \E p \in DOMAIN conc.calls :
        /\ conc.calls[p].op = "create_order" /\ conc.calls[p].pc = "save"
        /\ Take(p, AddSaveStep(Memory(orders, conc.heap, conc.refs), conc.calls[p]))

UpdateGet ==
    \E p \in DOMAIN conc.calls :
        /\ conc.calls[p].op = "update_order" /\ conc.calls[p].pc = "get"
        /\ Take(p, GetStep(Memory(orders, conc.heap, conc.refs), conc.calls[p]))

UpdateSave ==
    \E p \in DOMAIN conc.calls :
        /\ conc.calls[p].op = "update_order" /\ conc.calls[p].pc = "save"
        /\ Take(p, UpdateSaveStep(Memory(orders, conc.heap, conc.refs), conc.calls[p]))

DeleteGet ==
    \E p \in DOMAIN conc.calls :
        /\ conc.calls[p].op = "delete_order" /\ conc.calls[p].pc = "get"
        /\ Take(p, GetStep(Memory(orders, conc.heap, conc.refs), conc.calls[p]))

DeleteDelete ==
    \E p \in DOMAIN conc.calls :
        /\ conc.calls[p].op = "delete_order" /\ conc.calls[p].pc = "delete"
        /\ Take(p, DeleteStep(Memory(orders, conc.heap, conc.refs), conc.calls[p]))

NextConc ==
    \/ AddExists
    \/ AddSave
    \/ UpdateGet
    \/ UpdateSave
    \/ DeleteGet
    \/ DeleteDelete

SpecConc == InitConc /\ [][NextConc]_vars

(***************************************************************************)
(* Vocabulary of the properties below, stated without the code's checks.   *)
(***************************************************************************)
\* a status of the vocabulary
InVocabulary(status) ==
    status \in {PyStr("pending"), PyStr("shipped"), PyStr("delivered"), PyStr("cancelled")}

NonEmptyString(v) == v.type = "str" /\ v.s # ""

WellFormedItem(item) ==
    /\ item.type = "dict"
    /\ {"name", "quantity"} \subseteq DOMAIN item.d
    /\ item.d.quantity.type = "int"
    /\ item.d.quantity.n > 0

WellFormedItems(items) ==
    /\ items.type = "list"
    /\ Len(items.l) > 0
    /\ \A i \in 1..Len(items.l) : WellFormedItem(items.l[i])

\* the record stored under order_id in store s (order_id is a key of s)
Stored(s, order_id) == s[CHOOSE i \in 1..Len(s) : s[i].k = order_id].v

\* the last call was update_order_status on order_id k, called directly or by
\* update_order, and it succeeded
SuccessfulUpdateOf(k) ==
    /\ last.order_id = k
    /\ \/ last.op = "update_order_status" /\ last.exc = ""
       \/ last.op = "update_order" /\ last.code = 200

\* the ids the lifecycle says are stored: created with success, not deleted since
LiveIds == {PyStr(i) : i \in {j \in OrderIds : lifecycle[j] = "stored"}}

(***************************************************************************)
(* C1. Round trip: after every add_order call with a non-empty string      *)
(* order_id that was not in the store, a non-empty string customer_id and  *)
(* a non-empty list of well-formed items, the call has succeeded and       *)
(* get_order_by_id on the store it left returns, without error, the record *)
(* with exactly the submitted order_id, items and customer_id and status   *)
(* "pending".                                                              *)
(***************************************************************************)
C1_RoundTrip ==
    ( /\ last.op = "add_order"
      /\ NonEmptyString(last.order_id)
      /\ NonEmptyString(last.customer_id)
      /\ WellFormedItems(last.items)
      /\ last.order_id \notin Keys(pre) )
    => LET submitted == [order_id |-> last.order_id, items |-> last.items,
                         customer_id |-> last.customer_id, status |-> PyStr("pending")]
           g == get_order_by_id(orders, last.order_id)
       IN /\ last.exc = ""
          /\ last.ret = <<submitted>>
          /\ g.exc = ""
          /\ g.ret = <<submitted>>
          /\ g.orders = orders

\* a second order, of two items, has been added to a store that held another
C1_Witness ==
    /\ last.op = "add_order"
    /\ last.exc = ""
    /\ Len(pre) = 1
    /\ Len(last.items.l) = 2
    /\ get_order_by_id(orders, last.order_id).ret = last.ret

(***************************************************************************)
(* C2. add_order with an order_id that is in the store raises ValueError,  *)
(* whatever items and customer_id are, and leaves the store as it was: the *)
(* record under that order_id keeps its order_id, items, customer_id and   *)
(* status.                                                                 *)
(***************************************************************************)
C2_DuplicateRejected ==
    (last.op = "add_order" /\ last.order_id \in Keys(pre))
    => /\ last.exc = "ValueError"
       /\ last.ret = <<>>
       /\ last.order_id \in Keys(orders)
       /\ Stored(orders, last.order_id) = Stored(pre, last.order_id)
       /\ orders = pre

\* a well-formed duplicate, with other items and customer than the stored
\* order, which has left pending, was rejected as a duplicate
C2_Witness ==
    /\ last.op = "add_order"
    /\ last.order_id \in Keys(pre)
    /\ WellFormedItems(last.items)
    /\ NonEmptyString(last.customer_id)
    /\ Stored(pre, last.order_id).items # last.items
    /\ Stored(pre, last.order_id).customer_id # last.customer_id
    /\ Stored(pre, last.order_id).status = PyStr("shipped")
    /\ last.msg = "Order with ID 'ORD001' already exists."

(***************************************************************************)
(* C3. update_order_status on a stored order with a new status outside the *)
(* vocabulary raises ValueError and leaves the whole store as it was,      *)
(* whatever the order's current status.                                    *)
(***************************************************************************)
C3_InvalidStatusRejected ==
    ( /\ last.op = "update_order_status"
      /\ last.order_id \in Keys(pre)
      /\ ~InVocabulary(last.status) )
    => /\ last.exc = "ValueError"
       /\ last.ret = <<>>
       /\ orders = pre

\* an invalid status was refused for a delivered order, another order stored
C3_Witness ==
    /\ last.op = "update_order_status"
    /\ last.order_id \in Keys(pre)
    /\ last.status = PyStr("invalid_status")
    /\ Stored(pre, last.order_id).status = PyStr("delivered")
    /\ Len(pre) = 2
    /\ last.exc = "ValueError"

(***************************************************************************)
(* C4. update_order_status with a non-empty string order_id that is not in *)
(* the store (never created, or deleted since) and a status of the         *)
(* vocabulary raises KeyError, creates no record under that order_id and   *)
(* leaves the store as it was.                                             *)
(***************************************************************************)
C4_UnknownIdNotFound ==
    ( /\ last.op = "update_order_status"
      /\ NonEmptyString(last.order_id)
      /\ last.order_id \notin Keys(pre)
      /\ InVocabulary(last.status) )
    => /\ last.exc = "KeyError"
       /\ last.ret = <<>>
       /\ last.order_id \notin Keys(orders)
       /\ orders = pre

\* the update of an order that was deleted earlier was answered not found
C4_Witness ==
    /\ last.op = "update_order_status"
    /\ last.exc = "KeyError"
    /\ lifecycle[last.order_id.s] = "deleted"
    /\ last.status = PyStr("shipped")
    /\ Len(pre) = 1

(***************************************************************************)
(* C5. Status transitions are unrestricted: update_order_status on a       *)
(* stored order with any status t of the vocabulary succeeds whatever the  *)
(* current status, returns the record with status t and stores it, so that *)
(* get_order_by_id returns status t; and get_order_by_id keeps returning   *)
(* the status an order has: the status of an order that stays stored       *)
(* differs after a call only when the call is a successful                 *)
(* update_order_status on its order_id.                                    *)
(***************************************************************************)
C5_UnrestrictedTransitions ==
    /\ ( /\ last.op = "update_order_status"
         /\ last.order_id \in Keys(pre)
         /\ InVocabulary(last.status) )
       => /\ last.exc = ""
          /\ last.ret = <<[Stored(pre, last.order_id) EXCEPT !.status = last.status]>>
          /\ get_order_by_id(orders, last.order_id).ret = last.ret
    /\ (last.op = "get_order_by_id" /\ last.order_id \in Keys(pre))
       => /\ last.exc = ""
          /\ last.ret = <<Stored(pre, last.order_id)>>
    /\ \A k \in Keys(pre) \cap Keys(orders) :
          Stored(orders, k).status # Stored(pre, k).status => SuccessfulUpdateOf(k)

\* a delivered order went back to pending
C5_Witness ==
    /\ last.op = "update_order_status"
    /\ last.exc = ""
    /\ last.order_id \in Keys(pre)
    /\ Stored(pre, last.order_id).status = PyStr("delivered")
    /\ last.status = PyStr("pending")
    /\ Stored(orders, last.order_id).status = PyStr("pending")

(***************************************************************************)
(* C6. list_orders_by_status(s), s of the vocabulary, returns exactly the  *)
(* stored orders whose status is s: each of them once, no order of another *)
(* status, no order that is deleted, the empty list when none matches; and *)
(* it leaves the store as it was.                                          *)
(***************************************************************************)
C6_ListByStatusExact ==
    (last.op = "list_orders_by_status" /\ InVocabulary(last.status))
    => LET matching == {k \in Keys(pre) : Stored(pre, k).status = last.status}
       IN /\ last.exc = ""
          /\ {last.ret[i] : i \in 1..Len(last.ret)} = {Stored(pre, k) : k \in matching}
          /\ Len(last.ret) = Cardinality(matching)
          /\ \A i \in 1..Len(last.ret) :
                /\ last.ret[i].status = last.status
                /\ last.ret[i].order_id \in LiveIds
          /\ (matching = {} => last.ret = <<>>)
          /\ orders = pre

\* of two stored orders, the one that is shipped, and only it, was listed
C6_Witness ==
    /\ last.op = "list_orders_by_status"
    /\ last.status = PyStr("shipped")
    /\ Len(pre) = 2
    /\ Len(last.ret) = 1
    /\ last.ret[1].order_id = PyStr("ORD002")
    /\ pre[1].k = PyStr("ORD002")

(***************************************************************************)
(* C7. delete_order of a stored order answers 200 with that order and      *)
(* removes it: get_order of the same id then answers 404 and               *)
(* get_order_by_id raises KeyError, the other orders are as they were; an  *)
(* id enters the store only by a successful add_order or create_order of   *)
(* it; and delete_order of an id that is not stored answers 404 and        *)
(* changes nothing.                                                        *)
(***************************************************************************)
C7_DeleteRemoves ==
    /\ (last.op = "delete_order" /\ last.order_id \in Keys(pre))
       => /\ last.code = 200
          /\ last.ret = <<Stored(pre, last.order_id)>>
          /\ Keys(orders) = Keys(pre) \ {last.order_id}
          /\ \A k \in Keys(orders) : Stored(orders, k) = Stored(pre, k)
          /\ get_order(orders, last.order_id).code = 404
          /\ get_order_by_id(orders, last.order_id).exc = "KeyError"
    /\ (last.op = "delete_order" /\ last.order_id \notin Keys(pre))
       => /\ last.code = 404
          /\ last.ret = <<>>
          /\ orders = pre
    /\ (last.op = "get_order" /\ last.order_id \notin Keys(pre))
       => last.code = 404
    /\ (last.op = "get_order_by_id" /\ NonEmptyString(last.order_id)
            /\ last.order_id \notin Keys(pre))
       => last.exc = "KeyError"
    /\ \A k \in Keys(orders) \ Keys(pre) :
          /\ last.order_id = k
          /\ \/ last.op = "add_order" /\ last.exc = ""
             \/ last.op = "create_order" /\ last.code = 201

\* the first of two stored orders was deleted
C7_Witness ==
    /\ last.op = "delete_order"
    /\ last.code = 200
    /\ Len(pre) = 2
    /\ pre[1].k = last.order_id
    /\ Len(orders) = 1

(***************************************************************************)
(* C8. The status of every stored order is one of pending, shipped,        *)
(* delivered, cancelled, and the order a successful add_order or           *)
(* create_order has just created is stored and returned with status        *)
(* "pending", also when the body of the request names another status.      *)
(***************************************************************************)
C8_StatusInVocabulary ==
    /\ \A i \in 1..Len(orders) : InVocabulary(orders[i].v.status)
    /\ \/ last.op = "add_order" /\ last.exc = ""
       \/ last.op = "create_order" /\ last.code = 201
       => /\ last.order_id \in Keys(orders)
          /\ Stored(orders, last.order_id).status = PyStr("pending")
          /\ Len(last.ret) = 1
          /\ last.ret[1].status = PyStr("pending")

\* an order posted with status "shipped" was created pending beside a stored
\* order that is cancelled
C8_Witness ==
    /\ last.op = "create_order"
    /\ last.code = 201
    /\ last.status = PyStr("shipped")
    /\ Len(pre) = 1
    /\ pre[1].v.status = PyStr("cancelled")
    /\ Len(orders) = 2
    /\ orders[2].v.status = PyStr("pending")

(***************************************************************************)
(* C9. Every order that is stored before and after a call has the same     *)
(* order_id, items and customer_id after it, and is stored under its own   *)
(* order_id; its status differs only when the call is a successful         *)
(* update_order_status on its order_id, which changes no other order.      *)
(***************************************************************************)
C9_FieldsImmutable ==
    /\ \A i \in 1..Len(orders) : orders[i].v.order_id = orders[i].k
    /\ \A k \in Keys(pre) \cap Keys(orders) :
          /\ Stored(orders, k).order_id = Stored(pre, k).order_id
          /\ Stored(orders, k).items = Stored(pre, k).items
          /\ Stored(orders, k).customer_id = Stored(pre, k).customer_id
          /\ Stored(orders, k) # Stored(pre, k)
             => SuccessfulUpdateOf(k) /\ InVocabulary(last.status)
    /\ (last.op \in {"add_order", "get_order_by_id", "list_all_orders",
                     "list_orders_by_status", "create_order", "get_order",
                     "list_orders"})
       => \A k \in Keys(pre) : k \in Keys(orders) /\ Stored(orders, k) = Stored(pre, k)

\* the status of the second of two stored orders was updated
C9_Witness ==
    /\ last.op = "update_order_status"
    /\ last.exc = ""
    /\ Len(pre) = 2
    /\ pre[2].k = last.order_id
    /\ pre[2].v.status # last.status
    /\ pre[1] = orders[1]
    /\ pre[1].v.items # pre[2].v.items
    /\ pre[1].v.customer_id # pre[2].v.customer_id

(***************************************************************************)
(* C10. list_all_orders returns every stored record exactly once: the      *)
(* order_ids returned are the ids created with success and not deleted     *)
(* since, none twice, each with the record stored under it, and the list   *)
(* is empty when the store is empty.                                       *)
(***************************************************************************)
C10_ListAllExact ==
    (last.op = "list_all_orders")
    => /\ last.exc = ""
       /\ {last.ret[i].order_id : i \in 1..Len(last.ret)} = LiveIds
       /\ Len(last.ret) = Cardinality(LiveIds)
       /\ \A i \in 1..Len(last.ret) :
             /\ last.ret[i].order_id \in Keys(pre)
             /\ last.ret[i] = Stored(pre, last.ret[i].order_id)
       /\ (Len(pre) = 0 => last.ret = <<>>)
       /\ orders = pre

\* two orders were listed, ORD002 created before ORD001 and delivered since
C10_Witness ==
    /\ last.op = "list_all_orders"
    /\ Len(last.ret) = 2
    /\ last.ret[1].order_id = PyStr("ORD002")
    /\ last.ret[1].status = PyStr("delivered")
    /\ last.ret[2].order_id = PyStr("ORD001")

(***************************************************************************)
(* C11. GET /api/orders answers 200 with exactly the stored orders that    *)
(* match every filter the query supplies (status equal to the status       *)
(* parameter, customer_id equal to the customer_id parameter; all orders   *)
(* when there is none), and answers 400, the store unchanged, whenever the *)
(* status the query supplies is not of the vocabulary. A parameter is      *)
(* supplied when the query names it, whatever its value.                   *)
(***************************************************************************)
C11_ListOrdersFiltered ==
    (last.op = "list_orders")
    => LET matching ==
               {k \in Keys(pre) :
                   /\ last.status # None => Stored(pre, k).status = last.status
                   /\ last.customer_id # None
                         => Stored(pre, k).customer_id = last.customer_id}
       IN /\ orders = pre
          /\ IF last.status # None /\ ~InVocabulary(last.status)
             THEN last.code = 400
             ELSE /\ last.code = 200
                  /\ {last.ret[i] : i \in 1..Len(last.ret)}
                         = {Stored(pre, k) : k \in matching}
                  /\ Len(last.ret) = Cardinality(matching)

(***************************************************************************)
(* C12. add_order is fail-fast in a fixed order: order_id (a non-empty     *)
(* string), customer_id (a non-empty string), items (a non-empty list,     *)
(* then its items in list order: a dict, with both fields, with a positive *)
(* integer quantity), and only then the duplicate check. The one error it  *)
(* raises is the error of the first rule violated in that order, and       *)
(* nothing is stored; it succeeds when no rule is violated.                *)
(***************************************************************************)
\* the error of the first malformed item of the list l, by the rules alone
FirstItemRuleViolated(l) ==
    LET bad == {i \in 1..Len(l) : ~WellFormedItem(l[i])}
        first == CHOOSE i \in bad : \A j \in bad : i <= j
        item == l[first]
    IN IF bad = {} THEN ""
       ELSE IF item.type # "dict" THEN "Each item must be a dictionary."
       ELSE IF ~({"name", "quantity"} \subseteq DOMAIN item.d)
       THEN "Each item must have 'name' and 'quantity' fields."
       ELSE "Item quantity must be a positive integer."

\* the error of the first rule the call c violates on store s, "" for none
FirstRuleViolated(s, c) ==
    IF ~NonEmptyString(c.order_id)
    THEN "Order ID is required and must be a non-empty string."
    ELSE IF ~NonEmptyString(c.customer_id)
    THEN "Customer ID is required and must be a non-empty string."
    ELSE IF ~(c.items.type = "list" /\ Len(c.items.l) > 0)
    THEN "Items must be a non-empty list."
    ELSE IF FirstItemRuleViolated(c.items.l) # ""
    THEN FirstItemRuleViolated(c.items.l)
    ELSE IF c.order_id \in Keys(s)
    THEN "Order with ID '" \o c.order_id.s \o "' already exists."
    ELSE ""

C12_FailFastOrder ==
    (last.op = "add_order")
    => /\ last.msg = FirstRuleViolated(pre, last)
       /\ last.msg # "" => last.exc = "ValueError" /\ last.ret = <<>> /\ orders = pre
       /\ last.msg = "" => last.exc = "" /\ Len(orders) = Len(pre) + 1

\* a call that violates three rules (customer_id, items, duplicate) was
\* answered with the error of the customer_id
C12_Witness ==
    /\ last.op = "add_order"
    /\ last.order_id \in Keys(pre)
    /\ last.customer_id = None
    /\ last.items = None
    /\ last.msg = "Customer ID is required and must be a non-empty string."
    /\ last.exc = "ValueError"

(***************************************************************************)
(* C14. update_order_status validates before it looks the order up: with   *)
(* an order_id that is no non-empty string or a new status outside the     *)
(* vocabulary it raises ValueError (PUT answers 400), also when the        *)
(* order_id is not in the store, and it raises KeyError (PUT answers 404)  *)
(* exactly when the order_id is a non-empty string, the status is of the   *)
(* vocabulary and the order is absent.                                     *)
(***************************************************************************)
C14_ValidateBeforeLookup ==
    /\ (last.op = "update_order_status")
       => /\ (~NonEmptyString(last.order_id) \/ ~InVocabulary(last.status))
             => last.exc = "ValueError"
          /\ last.exc = "KeyError"
             <=> /\ NonEmptyString(last.order_id)
                 /\ InVocabulary(last.status)
                 /\ last.order_id \notin Keys(pre)
    /\ (last.op = "update_order")
       => /\ ~InVocabulary(last.status) => last.code = 400
          /\ last.code = 404
             <=> InVocabulary(last.status) /\ last.order_id \notin Keys(pre)

\* PUT with a status outside the vocabulary for an order that is not stored,
\* beside one that is, was answered 400
C14_Witness ==
    /\ last.op = "update_order"
    /\ last.status = PyStr("flying")
    /\ last.order_id \notin Keys(pre)
    /\ Len(pre) = 1
    /\ last.code = 400

(***************************************************************************)
(* C15. The store changes only on success: every call that ends in         *)
(* ValueError or KeyError, every request answered 400 or 404, and every    *)
(* read (get_order_by_id, list_all_orders, list_orders_by_status,          *)
(* get_order, list_orders) leaves the stored ids and every stored record   *)
(* as they were.                                                           *)
(***************************************************************************)
C15_StoreChangesOnlyOnSuccess ==
    ( \/ last.exc \in {"ValueError", "KeyError"}
      \/ last.code \in {400, 404}
      \/ last.op \in {"get_order_by_id", "list_all_orders", "list_orders_by_status",
                      "get_order", "list_orders"} )
    => /\ orders = pre
       /\ Keys(orders) = Keys(pre)
       /\ \A k \in Keys(pre) : Stored(orders, k) = Stored(pre, k)

\* PUT with a status outside the vocabulary was answered 400 for a stored,
\* shipped order, beside another
C15_Witness ==
    /\ last.op = "update_order"
    /\ last.code = 400
    /\ last.status = PyStr("flying")
    /\ Len(pre) = 2
    /\ last.order_id \in Keys(pre)
    /\ Stored(pre, last.order_id).status = PyStr("shipped")

(***************************************************************************)
(* The serial executions of the two callers' requests: each handler run    *)
(* whole, one after the other, from the store the callers started from.    *)
(***************************************************************************)
\* the handler of caller c, run whole on store s
Whole(s, c) ==
    CASE c.op = "create_order" ->
             create_order(s, PyDict([order_id |-> c.order_id, items |-> c.items,
                                     customer_id |-> c.customer_id]))
      [] c.op = "update_order" -> update_order(s, c.order_id, PyDict([status |-> c.status]))
      [] c.op = "delete_order" -> delete_order(s, c.order_id)

\* answers of the first and of the second caller and the final store, when
\* a runs before b
Serial(s, a, b) ==
    LET ra == Whole(s, a)
        rb == Whole(ra.orders, b)
    IN [first |-> <<ra.code, ra.ret>>, second |-> <<rb.code, rb.ret>>, orders |-> rb.orders]

AllDone == Len(conc.calls) = 2 /\ \A p \in 1..2 : conc.calls[p].pc = "done"

Outcome(p) == <<conc.calls[p].code, conc.calls[p].ret>>

\* the answers and the final store are those of one of the two serial executions
Serializable ==
    \/ LET x == Serial(pre, conc.calls[1], conc.calls[2])
       IN Outcome(1) = x.first /\ Outcome(2) = x.second /\ orders = x.orders
    \/ LET x == Serial(pre, conc.calls[2], conc.calls[1])
       IN Outcome(2) = x.first /\ Outcome(1) = x.second /\ orders = x.orders

(***************************************************************************)
(* C13, as claimed. Whatever the interleaving of the two callers' storage  *)
(* calls, the answers and the final store are those of a serial execution. *)
(***************************************************************************)
C13_AlwaysSerializable == AllDone => Serializable

\* two creations of ORD001 overlapped and both were answered 201
C13_Witness ==
    /\ AllDone
    /\ conc.overlapped
    /\ \A p \in 1..2 :
          /\ conc.calls[p].op = "create_order"
          /\ conc.calls[p].order_id = PyStr("ORD001")
          /\ conc.calls[p].code = 201

====
